---- MODULE Spec2Model ----
(***************************************************************************)
(* Model of dl-youtube.py: the DLYoutube batch pipeline (input parsing,    *)
(* path derivation, existence checks, downloader / tag writer / normalizer *)
(* calls and the per-record error boundary).                               *)
(*                                                                         *)
(* Text is modelled as a sequence of one-character strings, so that        *)
(* splitting, stripping and the regular-expression substitution are        *)
(* computed character by character as the Python code computes them.       *)
(***************************************************************************)
EXTENDS Integers, Sequences, FiniteSets, TLC

VARIABLES
    pc,               \* position of the process / of main()'s record loop
    run,              \* number of the current invocation of the program
    idx,              \* index (1-based) of the record the loop is at
    startup,          \* condition of the environment met by __init__
    convert_to_mkv,   \* self.convert_to_mkv (option -m)
    inputFile,        \* the lines of the input file (-i)
    csvRows,          \* history: the rows csv.reader gave to DictReader
    inputList,        \* self.inputList: one dict per row
    fs,               \* files on disk: set of [tree, key, ext, data]
    rec,              \* locals of main() derived from the record (lines 277-319)
    videotmpfpath,    \* local of main(): the temp video file to normalize
    downloaded_fname, \* self.downloaded_fname, set by ydl_hook
    hist,             \* history: collaborator calls and checks of this run
    exitCode,         \* exit status of the process (NoExit while running)
    prevProduced,     \* history: <<record, kind>> finalised by the previous run
    prevFinal,        \* history: final artifacts on disk when this run began
    faults,           \* history: collaborator calls that failed so far
    rm_cache_dir,     \* self.rm_cache_dir (option -r)
    cacheFilled,      \* the downloader's cache folder holds entries
    rmtreeCalls,      \* history: shutil.rmtree calls on the cache, this run
    text,             \* a text field given to the segment sanitizer
    sanitized         \* the path segment derived from it

vars == <<pc, run, idx, startup, convert_to_mkv, inputFile, csvRows,
          inputList, fs,
          rec, videotmpfpath, downloaded_fname, hist, exitCode, prevProduced,
          prevFinal, faults, rm_cache_dir, cacheFilled, rmtreeCalls, text,
          sanitized>>

(***************************************************************************)
(* Bounds of the model.                                                    *)
(***************************************************************************)
MaxRecords == 3      \* longest input list of the pipeline specification
MaxRuns == 2         \* invocations of the program on the same folders
MaxFaults == 1       \* collaborator calls that fail in one behaviour
MaxTextLen == 4      \* longest text given to the sanitizer check
MaxLineLen == 4      \* longest first line of a file of the parser check
MaxSecondLineLen == 2 \* longest second line of such a file
MaxFlagRecords == 2  \* longest input list of the type flag specification

(***************************************************************************)
(* Characters and Python's str helpers.                                    *)
(***************************************************************************)
Digits == {"0", "1", "2", "3", "4", "5", "6", "7", "8", "9"}
LowerCase == {"a", "b", "c", "d", "e", "f", "g", "h", "i", "j", "k", "l", "m",
              "n", "o", "p", "q", "r", "s", "t", "u", "v", "w", "x", "y", "z"}
UpperCase == {"A", "B", "C", "D", "E", "F", "G", "H", "I", "J", "K", "L", "M",
              "N", "O", "P", "Q", "R", "S", "T", "U", "V", "W", "X", "Y", "Z"}
\* the class [0-9a-zA-Z] of the regular expression
Alnum == Digits \cup LowerCase \cup UpperCase
\* characters str.strip() removes
Whitespace == {" ", "\t", "\n", "\r"}

\* Python's None: distinct from every text
None == <<"<None>">>

RECURSIVE LStrip(_, _)
LStrip(s, chars) ==
    IF s = <<>> THEN <<>>
    ELSE IF Head(s) \in chars THEN LStrip(Tail(s), chars) ELSE s

RECURSIVE RStrip(_, _)
RStrip(s, chars) ==
    IF s = <<>> THEN <<>>
    ELSE IF s[Len(s)] \in chars THEN RStrip(SubSeq(s, 1, Len(s) - 1), chars)
    ELSE s

\* str.strip() and str.strip('"')
Strip(s) == RStrip(LStrip(s, Whitespace), Whitespace)
StripQuote(s) == RStrip(LStrip(s, {"\""}), {"\""})

\* s.split(sep)[0]: the text before the first sep
RECURSIVE BeforeFirst(_, _)
BeforeFirst(s, sep) ==
    IF s = <<>> THEN <<>>
    ELSE IF Head(s) = sep THEN <<>>
    ELSE <<Head(s)>> \o BeforeFirst(Tail(s), sep)

\* the fields of a line, split at the delimiter
RECURSIVE SplitOn(_, _)
SplitOn(s, sep) ==
    IF \A i \in 1..Len(s) : s[i] # sep THEN <<s>>
    ELSE LET first == BeforeFirst(s, sep)
         IN  <<first>> \o SplitOn(SubSeq(s, Len(first) + 2, Len(s)), sep)

\* 'needle' in s
Contains(s, needle) ==
    \E i \in 1..(Len(s) - Len(needle) + 1) :
        SubSeq(s, i, i + Len(needle) - 1) = needle

\* str.lower() on the letters the type flag uses
LowerChar(c) == IF c = "A" THEN "a" ELSE IF c = "V" THEN "v" ELSE c
Lower(s) == [i \in 1..Len(s) |-> LowerChar(s[i])]

(***************************************************************************)
(* The segment sanitizer: re.sub('[^0-9a-zA-Z]+', '_', text).              *)
(***************************************************************************)
RECURSIVE DropNonAlnum(_)
DropNonAlnum(s) ==
    IF s = <<>> THEN <<>>
    ELSE IF Head(s) \in Alnum THEN s ELSE DropNonAlnum(Tail(s))

\* a plausible slip: '[^0-9a-zA-Z]' without '+', one underscore per character
RECURSIVE SanitizePerChar(_)
SanitizePerChar(s) ==
    IF s = <<>> THEN <<>>
    ELSE IF Head(s) \in Alnum THEN <<Head(s)>> \o SanitizePerChar(Tail(s))
    ELSE <<"_">> \o SanitizePerChar(Tail(s))

RECURSIVE Sanitize(_)
Sanitize(s) ==
    IF s = <<>> THEN <<>>
    ELSE IF Head(s) \in Alnum THEN <<Head(s)>> \o Sanitize(Tail(s))
    ELSE <<"_">> \o Sanitize(DropNonAlnum(Tail(s)))

(***************************************************************************)
(* parse_input_list: decomment, csv split, DictReader with fieldnames.     *)
(***************************************************************************)
DLTYPE == "DLTYPE"
DLINK == "LINK"
ALBUMARTIST == "TPE2"
ALBUM == "TALB"
TITLE == "TIT2"
ARTIST == "TPE1"
GENRE == "TCON"
YEAR == "TYER"
PICTURE == "picture"

INPUT_CSV_HEADER ==
    <<DLTYPE, DLINK, ALBUMARTIST, ALBUM, TITLE, ARTIST, GENRE, YEAR, PICTURE>>

\* a plausible slip: the comment is cut off after the (empty line) test only
DecommentRowKeepComment(row) == Strip(row)

\* decomment, one row: row.split('#')[0].strip()
DecommentRow(row) == Strip(BeforeFirst(row, "#"))

\* decomment, the generator: rows that are empty after stripping are dropped
RECURSIVE Decomment(_)
Decomment(rows) ==
    IF rows = <<>> THEN <<>>
    ELSE LET raw == DecommentRow(Head(rows))
         IN  (IF raw # <<>> THEN <<raw>> ELSE <<>>) \o Decomment(Tail(rows))

\* csv.reader on one line (default dialect; lines hold no quote character)
CsvRow(raw) == SplitOn(raw, ",")

\* a plausible slip: a header without the type flag, the link first
DictRowLinkFirst(row) ==
    [k \in {INPUT_CSV_HEADER[j] : j \in 1..9} |->
        LET j == CHOOSE n \in 1..9 : INPUT_CSV_HEADER[n] = k
        IN  IF j = 1 THEN <<>>
            ELSE IF j - 1 <= Len(row) THEN row[j - 1] ELSE None]

\* csv.DictReader: the fieldnames are zipped with the row in order; a missing
\* column gets restval (None); columns beyond the header go to restkey, which
\* main() never reads
DictRow(row) ==
    [k \in {INPUT_CSV_HEADER[j] : j \in 1..9} |->
        LET j == CHOOSE n \in 1..9 : INPUT_CSV_HEADER[n] = k
        IN  IF j <= Len(row) THEN row[j] ELSE None]

\* the rows the csv reader yields for the lines of a file
CsvRows(lines) ==
    LET raws == Decomment(lines)
    IN  [n \in 1..Len(raws) |-> CsvRow(raws[n])]

DictRows(rows) == [n \in 1..Len(rows) |-> DictRow(rows[n])]

parse_input_list(lines) == DictRows(CsvRows(lines))

(***************************************************************************)
(* Per-record derivations of main().                                       *)
(***************************************************************************)
YOUTUBE == <<"y", "o", "u", "t", "u", "b", "e">>

isYoutubeLink(link) == Contains(link, YOUTUBE)

\* a plausible slip: the flag compared without opt.lower()
get_dl_type_case_sensitive(opt) ==
    IF opt = <<"a">> THEN <<TRUE, FALSE>>
    ELSE IF opt = <<"v">> THEN <<FALSE, TRUE>>
    ELSE IF opt = <<"a", "v">> THEN <<TRUE, TRUE>>
    ELSE <<FALSE, FALSE>>

\* get_dl_type: <<getaudio, getvideo>>
get_dl_type(opt) ==
    IF Lower(opt) = <<"a">> THEN <<TRUE, FALSE>>
    ELSE IF Lower(opt) = <<"v">> THEN <<FALSE, TRUE>>
    ELSE IF Lower(opt) = <<"a", "v">> THEN <<TRUE, TRUE>>
    ELSE <<FALSE, FALSE>>

\* od[...].strip().strip('"')
Field(od, k) == StripQuote(Strip(od[k]))

\* the field reads of lines 277-288 raise AttributeError on a None value
FieldsReadable(od) == \A j \in 1..9 : od[INPUT_CSV_HEADER[j]] # None

GetAudio(od) == get_dl_type(Field(od, DLTYPE))[1]
GetVideo(od) == get_dl_type(Field(od, DLTYPE))[2]
IsYoutube(od) == isYoutubeLink(Field(od, DLINK))

\* the sanitized segments <albumartist>/<album>/<title>: the same triple names
\* song_fpath, video_tmp_fpath and audio_tmp_fpath below their three roots
PathKey(od) ==
    <<Sanitize(Field(od, ALBUMARTIST)), Sanitize(Field(od, ALBUM)),
      Sanitize(Field(od, TITLE))>>

\* the locals main() derives from a record before its try block
Locals(od) ==
    [dlink |-> Field(od, DLINK),
     getaudio |-> GetAudio(od),
     getvideo |-> GetVideo(od),
     isyoutube |-> IsYoutube(od),
     converttomkv |-> (convert_to_mkv \/ IsYoutube(od)),
     cover |-> Field(od, PICTURE),
     key |-> PathKey(od)]

NoLocals ==
    [dlink |-> <<>>, getaudio |-> FALSE, getvideo |-> FALSE,
     isyoutube |-> FALSE, converttomkv |-> FALSE, cover |-> <<>>,
     key |-> <<>>]

(***************************************************************************)
(* The disk.  A file is [tree, key, ext, data]: tree is the root it lies    *)
(* under (OUT: the output folder, TMPV / TMPA: the temp video / audio       *)
(* folders), key the sanitized triple, ext the extension.  data abstracts   *)
(* the bytes: the link downloaded, the revision of the ID3 tags (0: none),  *)
(* whether a cover is embedded, whether the file went through the           *)
(* normalizer.                                                              *)
(***************************************************************************)
OUT == "out"
TMPV == "tmpv"
TMPA == "tmpa"

VIDEO_FILE_EXT ==
    <<"mp4", "mkv", "webm", "mpg", "mpeg", "mpe", "mpv", "mp4", "m4v", "avi",
      "wmv", "mov">>

NoFile == "None"

isfile(disk, tree, key, ext) ==
    \E f \in disk : f.tree = tree /\ f.key = key /\ f.ext = ext

FileAt(disk, tree, key, ext) ==
    CHOOSE f \in disk : f.tree = tree /\ f.key = key /\ f.ext = ext

\* writing a path creates the file or replaces the one that is there
WriteFile(disk, tree, key, ext, data) ==
    {f \in disk : ~(f.tree = tree /\ f.key = key /\ f.ext = ext)}
        \cup {[tree |-> tree, key |-> key, ext |-> ext, data |-> data]}

\* os.remove
RemoveFile(disk, tree, key, ext) ==
    {f \in disk : ~(f.tree = tree /\ f.key = key /\ f.ext = ext)}

\* a plausible slip: only the first extension of the list is tried
first_video_ext_only(disk, tree, key) ==
    IF isfile(disk, tree, key, VIDEO_FILE_EXT[1]) THEN VIDEO_FILE_EXT[1]
    ELSE NoFile

\* downloaded_video_file_exist: the first extension of VIDEO_FILE_EXT, in
\* order, for which <fnamenoext>.<ext> is a file; None when there is none
downloaded_video_file_exist(disk, tree, key) ==
    LET hits == {j \in 1..Len(VIDEO_FILE_EXT) :
                    isfile(disk, tree, key, VIDEO_FILE_EXT[j])}
    IN  IF hits = {} THEN NoFile
        ELSE VIDEO_FILE_EXT[CHOOSE j \in hits : \A n \in hits : j <= n]

(***************************************************************************)
(* Inputs of the pipeline specification: the lines an input file is made   *)
(* of.  Two of them derive the same path triple ("a b" and "a-b"), one has *)
(* a link of another host than the primary one, and one omits the type     *)
(* flag column.                                                            *)
(***************************************************************************)
RECURSIVE JoinFields(_)
JoinFields(fields) ==
    IF Len(fields) = 1 THEN fields[1]
    ELSE fields[1] \o <<",">> \o JoinFields(Tail(fields))

LinkYT1 == YOUTUBE \o <<"/", "1">>
LinkYT2 == YOUTUBE \o <<"/", "2">>
LinkOther == <<"v", "i", "m", "e", "o", "/", "4">>

\* av, youtube/1, A, B, a b, x, g, 2, c # n
LineAV ==
    JoinFields(<< <<"a", "v">>, <<" ">> \o LinkYT1, <<" ", "A">>, <<" ", "B">>,
                  <<" ", "a", " ", "b">>, <<" ", "x">>, <<" ", "g">>,
                  <<" ", "2">>, <<" ", "c", " ">> >>) \o <<"#", " ", "n">>
\* a,youtube/2,A,B,a-b,x,g,2,n   (no file n in the cover folder)
LineA ==
    JoinFields(<< <<"a">>, LinkYT2, <<"A">>, <<"B">>, <<"a", "-", "b">>,
                  <<"x">>, <<"g">>, <<"2">>, <<"n">> >>)
\* v,vimeo/4,A,B,c,x,g,2,c
LineV ==
    JoinFields(<< <<"v">>, LinkOther, <<"A">>, <<"B">>, <<"c">>, <<"x">>,
                  <<"g">>, <<"2">>, <<"c">> >>)
\* youtube/1,A,B,d,x,g,2,c   (eight columns: no type flag)
LineNoFlag ==
    JoinFields(<< LinkYT1, <<"A">>, <<"B">>, <<"d">>, <<"x">>, <<"g">>,
                  <<"2">>, <<"c">> >>)

LinePool == {LineAV, LineA, LineV, LineNoFlag}

RECURSIVE SeqsUpTo(_, _)
SeqsUpTo(S, n) ==
    IF n = 0 THEN {<<>>}
    ELSE LET shorter == SeqsUpTo(S, n - 1)
         IN  shorter \cup {Append(q, x) : q \in shorter, x \in S}

\* the files of the cover folder
CoverFiles == {<<"c">>}

\* extensions the downloader's output file can come with
DlExts == {"mp4", "flv"}

StartupConditions == {"ok", "no_output_folder", "no_input_file",
                      "unreadable_input_file", "no_temp_folder"}

NoExit == -1

Init ==
    /\ pc = "start"
    /\ run = 1
    /\ idx = 0
    /\ startup \in StartupConditions
    /\ convert_to_mkv \in BOOLEAN
    /\ rm_cache_dir = FALSE
    /\ cacheFilled = FALSE
    /\ rmtreeCalls = 0
    /\ inputFile \in SeqsUpTo(LinePool, MaxRecords)
    /\ csvRows = <<>>
    /\ inputList = <<>>
    /\ fs = {}
    /\ rec = NoLocals
    /\ videotmpfpath = NoFile
    /\ downloaded_fname = NoFile
    /\ hist = {}
    /\ exitCode = NoExit
    /\ prevProduced = {}
    /\ prevFinal = {}
    /\ faults = 0
    /\ text = <<>>
    /\ sanitized = <<>>

(***************************************************************************)
(* __main__ and DLYoutube.__init__.  The output folder is tested first,    *)
(* then the input file is parsed, then the temp folders are created.  A    *)
(* DLException is caught by __main__, which exits 1; any other exception   *)
(* of __init__ leaves __main__ uncaught and the interpreter exits 1.       *)
(***************************************************************************)
envVars == <<startup, convert_to_mkv, rm_cache_dir, inputFile>>
cacheVars == <<cacheFilled, rmtreeCalls>>
prevVars == <<prevProduced, prevFinal>>
textVars == <<text, sanitized>>

\* a plausible slip: a failed start-up is swallowed and main() runs anyway
ConstructIgnoringErrors ==
    /\ pc = "start"
    /\ pc' = "record"
    /\ idx' = 1
    /\ csvRows' = CsvRows(inputFile)
    /\ inputList' = DictRows(csvRows')
    /\ UNCHANGED <<run, fs, rec, videotmpfpath, downloaded_fname, hist,
                   exitCode, faults, envVars, prevVars, textVars, cacheVars>>

\* a plausible slip: the cache folder is removed whether -r was given or not
rm_cache_unconditional ==
    /\ cacheFilled' = FALSE
    /\ rmtreeCalls' = rmtreeCalls + 1

\* lines 267-273: main() removes the cache folder before its loop, when the
\* option asks for it (the folder is there: __init__ made it, lines 148-152)
rm_cache ==
    IF rm_cache_dir
    THEN /\ cacheFilled' = FALSE
         /\ rmtreeCalls' = rmtreeCalls + 1
    ELSE UNCHANGED cacheVars

Construct ==
    /\ pc = "start"
    /\ IF startup = "ok"
       THEN /\ csvRows' = CsvRows(inputFile)
            /\ inputList' = DictRows(csvRows')
            /\ rm_cache
            /\ pc' = "record"
            /\ idx' = 1
            /\ UNCHANGED exitCode
       ELSE /\ pc' = "exited"
            /\ exitCode' = 1
            /\ UNCHANGED <<csvRows, inputList, idx, cacheVars>>
    /\ UNCHANGED <<run, fs, rec, videotmpfpath, downloaded_fname, hist, faults,
                   envVars, prevVars, textVars>>

(***************************************************************************)
(* main(): the record loop.  od is the record the loop is at.  The loop is *)
(* cut at the calls of the three collaborators; each action runs the code  *)
(* from one call to the next.                                              *)
(***************************************************************************)
od == inputList[idx]
key == rec.key

VIDEO == "video"
AUDIO == "audio"
DIRS == "dirs"
MP3 == "mp3"
MKV == "mkv"

Log(events) == hist \cup {<<idx, e[1], e[2]>> : e \in events}

RawData == [src |-> rec.dlink, tags |-> 0, cover |-> FALSE, norm |-> FALSE]

\* a collaborator call fails: at most MaxFaults times in a behaviour
Fault ==
    /\ faults < MaxFaults
    /\ faults' = faults + 1

\* the try block is left through one of the except clauses of lines 499-502,
\* which log the error; the for loop goes on with the next record
NextRecord ==
    /\ pc' = "record"
    /\ idx' = idx + 1

\* top of the for loop with the list exhausted: main() returns, sys.exit(0)
LoopEnd ==
    /\ pc = "record"
    /\ idx > Len(inputList)
    /\ pc' = "exited"
    /\ exitCode' = 0
    /\ UNCHANGED <<run, idx, csvRows, inputList, fs, rec, videotmpfpath,
                   downloaded_fname, hist, faults, envVars, prevVars,
                   textVars, cacheVars>>

\* lines 306-313: os.makedirs for the six folders of the record.  Either
\* every folder is there afterwards, or a makedirs raised OSError for a
\* folder that is not there: the 'continue' of line 313 goes on with the next
\* folder of the tuple, and after the tuple main() goes on to line 315
makedirs ==
    \/ UNCHANGED <<hist, faults>>
    \/ /\ Fault
       /\ hist' = Log({<<DIRS, "mkdir_failed">>})

\* lines 277-323: the fields are read outside the try block; a None field
\* raises AttributeError, which __main__ turns into sys.exit(1)
RecordBegin ==
    /\ pc = "record"
    /\ idx <= Len(inputList)
    /\ IF FieldsReadable(od)
       THEN /\ pc' = "video"
            /\ rec' = Locals(od)
            /\ makedirs
            /\ UNCHANGED exitCode
       ELSE /\ pc' = "exited"
            /\ exitCode' = 1
            /\ UNCHANGED <<rec, hist, faults>>
    /\ downloaded_fname' = NoFile
    /\ UNCHANGED <<run, idx, csvRows, inputList, fs, videotmpfpath,
                   envVars, prevVars, textVars, cacheVars>>

\* a plausible slip: line 381 as the commented-out line 380 has it, the
\* final video file always takes the extension of the temp file
VideoExtKeepsTemp(tmpext) == tmpext

\* line 381: the extension of the final video file
VideoExt(tmpext) == IF rec.converttomkv THEN MKV ELSE tmpext

\* a plausible slip: the test of line 391 left out
VideoTargetNoCheck(disk, tmpext) == "v_normalize"

\* lines 381-392: where the video branch goes once the temp file is known
VideoTarget(disk, tmpext) ==
    IF isfile(disk, OUT, key, VideoExt(tmpext)) THEN "audio" ELSE "v_normalize"

\* lines 324-339
VideoBegin ==
    /\ pc = "video"
    /\ LET vt == downloaded_video_file_exist(fs, TMPV, key)
           vf == downloaded_video_file_exist(fs, OUT, key)
       IN  IF ~rec.getvideo
           THEN /\ pc' = "audio"
                /\ UNCHANGED videotmpfpath
           ELSE /\ videotmpfpath' = vt
                /\ pc' = IF vf # NoFile THEN "audio"
                         ELSE IF vt # NoFile THEN VideoTarget(fs, vt)
                         ELSE "v_download"
    /\ UNCHANGED <<run, idx, csvRows, inputList, fs, rec, downloaded_fname, hist,
                   exitCode, faults, envVars, prevVars, textVars, cacheVars>>

\* a plausible slip: a downloader error is let through to __main__
VideoDownloadRaisedUncaught ==
    /\ Fault
    /\ pc' = "exited"
    /\ exitCode' = 1
    /\ hist' = Log({<<VIDEO, "download">>, <<VIDEO, "raised">>})
    /\ UNCHANGED <<idx, fs, videotmpfpath, downloaded_fname>>

\* lines 365-371 with ydl.download raising
VideoDownloadRaised ==
    /\ Fault
    /\ NextRecord
    /\ hist' = Log({<<VIDEO, "download">>, <<VIDEO, "raised">>})
    /\ UNCHANGED <<fs, videotmpfpath, downloaded_fname, exitCode>>

\* the extensions the downloaded file can have: with the convertor the kept
\* native file is taken to be an .mp4
NativeExts == IF rec.converttomkv THEN {"mp4"} ELSE DlExts

\* lines 340-378: the downloader is called; it writes <video_tmp_fpath>.<e>
\* (kept: 'keepvideo') and, with the FFmpegVideoConvertor postprocessor, the
\* .mkv; ydl_hook records the downloaded file name
VideoDownload ==
    /\ pc = "v_download"
    /\ \/ VideoDownloadRaised
       \/ \E e \in NativeExts :
            LET disk1 == WriteFile(fs, TMPV, key, e, RawData)
                disk2 == IF rec.converttomkv
                         THEN WriteFile(disk1, TMPV, key, MKV, RawData)
                         ELSE disk1
                vt == IF rec.converttomkv THEN MKV ELSE e
            IN  /\ fs' = disk2
                /\ downloaded_fname' = e
                /\ videotmpfpath' = vt
                /\ pc' = VideoTarget(disk2, vt)
                /\ hist' = Log({<<VIDEO, "download">>})
                /\ UNCHANGED <<idx, exitCode, faults>>
    /\ cacheFilled' = TRUE
    /\ UNCHANGED <<run, csvRows, inputList, rec, envVars, prevVars, textVars,
                   rmtreeCalls>>

\* a plausible slip: copy / normalize in a try block of its own, so that a
\* failure is logged and main() goes on with the audio branch of the record
VideoNormalizeFailureGoesOn ==
    /\ pc = "v_normalize"
    /\ LET op == IF rec.isyoutube THEN "normalize" ELSE "copy"
           src == FileAt(fs, TMPV, key, videotmpfpath).data
       IN  \/ /\ fs' = WriteFile(fs, OUT, key, VideoExt(videotmpfpath),
                                 [src EXCEPT !.norm = rec.isyoutube])
              /\ hist' = Log({<<VIDEO, op>>, <<VIDEO, "produced">>})
              /\ pc' = "audio"
              /\ UNCHANGED <<idx, faults>>
           \/ /\ Fault
              /\ pc' = "audio"
              /\ hist' = Log({<<VIDEO, op>>, <<VIDEO, "raised">>})
              /\ UNCHANGED <<idx, fs>>
    /\ UNCHANGED <<run, csvRows, inputList, rec, videotmpfpath, downloaded_fname,
                   exitCode, envVars, prevVars, textVars, cacheVars>>

\* a plausible slip: the test of line 394 left out, every video normalized
VideoNormalizeAnyHost ==
    /\ pc = "v_normalize"
    /\ LET src == FileAt(fs, TMPV, key, videotmpfpath).data
       IN  \/ /\ fs' = WriteFile(fs, OUT, key, VideoExt(videotmpfpath),
                                 [src EXCEPT !.norm = TRUE])
              /\ hist' = Log({<<VIDEO, "normalize">>, <<VIDEO, "produced">>})
              /\ pc' = "audio"
              /\ UNCHANGED <<idx, faults>>
           \/ /\ Fault
              /\ NextRecord
              /\ hist' = Log({<<VIDEO, "normalize">>, <<VIDEO, "raised">>})
              /\ UNCHANGED fs
    /\ UNCHANGED <<run, csvRows, inputList, rec, videotmpfpath, downloaded_fname,
                   exitCode, envVars, prevVars, textVars, cacheVars>>

\* lines 393-408: copy for another host's link, the normalizer for the
\* primary host's; either may raise
VideoNormalize ==
    /\ pc = "v_normalize"
    /\ LET op == IF rec.isyoutube THEN "normalize" ELSE "copy"
           src == FileAt(fs, TMPV, key, videotmpfpath).data
       IN  \/ /\ fs' = WriteFile(fs, OUT, key, VideoExt(videotmpfpath),
                                 [src EXCEPT !.norm = rec.isyoutube])
              /\ hist' = Log({<<VIDEO, op>>, <<VIDEO, "produced">>})
              /\ pc' = "audio"
              /\ UNCHANGED <<idx, faults>>
           \/ /\ Fault
              /\ NextRecord
              /\ hist' = Log({<<VIDEO, op>>, <<VIDEO, "raised">>})
              /\ UNCHANGED fs
    /\ UNCHANGED <<run, csvRows, inputList, rec, videotmpfpath, downloaded_fname,
                   exitCode, envVars, prevVars, textVars, cacheVars>>

\* line 484: where the audio branch goes once the temp file is there
AudioTarget(disk) ==
    IF isfile(disk, OUT, key, MP3) THEN "record" ELSE "a_normalize"

\* line 417: os.path.isfile(audiofpath)
AudioFinalThere(disk) == isfile(disk, OUT, key, MP3)

\* a plausible slip: the tag writing placed after the else of line 422, so
\* that it also runs for a temp mp3 found on the disk
AudioBeginTagsFoundTemp ==
    /\ pc = "audio"
    /\ downloaded_fname' = NoFile
    /\ IF rec.getaudio /\ rec.isyoutube
       THEN IF AudioFinalThere(fs)
            THEN NextRecord
            ELSE IF isfile(fs, TMPA, key, MP3)
            THEN /\ pc' = "a_tag"
                 /\ UNCHANGED idx
            ELSE /\ pc' = "a_download"
                 /\ UNCHANGED idx
       ELSE NextRecord
    /\ UNCHANGED <<run, csvRows, inputList, fs, rec, videotmpfpath, hist, exitCode,
                   faults, envVars, prevVars, textVars, cacheVars>>

\* a plausible slip: line 411 tests getaudio only
AudioBeginAnyHost ==
    /\ pc = "audio"
    /\ downloaded_fname' = NoFile
    /\ IF rec.getaudio
       THEN IF AudioFinalThere(fs)
            THEN NextRecord
            ELSE IF isfile(fs, TMPA, key, MP3)
            THEN /\ pc' = AudioTarget(fs)
                 /\ idx' = IF AudioTarget(fs) = "record" THEN idx + 1 ELSE idx
            ELSE /\ pc' = "a_download"
                 /\ UNCHANGED idx
       ELSE NextRecord
    /\ UNCHANGED <<run, csvRows, inputList, fs, rec, videotmpfpath, hist, exitCode,
                   faults, envVars, prevVars, textVars, cacheVars>>

\* lines 410-422
AudioBegin ==
    /\ pc = "audio"
    /\ downloaded_fname' = NoFile
    /\ IF rec.getaudio /\ rec.isyoutube
       THEN IF AudioFinalThere(fs)
            THEN NextRecord
            ELSE IF isfile(fs, TMPA, key, MP3)
            THEN /\ pc' = AudioTarget(fs)
                 /\ idx' = IF AudioTarget(fs) = "record" THEN idx + 1 ELSE idx
            ELSE /\ pc' = "a_download"
                 /\ UNCHANGED idx
       ELSE NextRecord
    /\ UNCHANGED <<run, csvRows, inputList, fs, rec, videotmpfpath, hist, exitCode,
                   faults, envVars, prevVars, textVars, cacheVars>>

\* a plausible slip: the tags are written after the normalization, so a
\* successful audio download goes straight to the normalizer
AudioDownloadSkipsTag ==
    /\ pc = "a_download"
    /\ \/ /\ fs' = WriteFile(fs, TMPA, key, MP3, RawData)
          /\ hist' = Log({<<AUDIO, "download">>})
          /\ pc' = "a_normalize"
          /\ UNCHANGED <<idx, faults>>
       \/ /\ Fault
          /\ NextRecord
          /\ hist' = Log({<<AUDIO, "download">>, <<AUDIO, "raised">>})
          /\ UNCHANGED fs
    /\ cacheFilled' = TRUE
    /\ UNCHANGED <<run, csvRows, inputList, rec, videotmpfpath, downloaded_fname,
                   exitCode, envVars, prevVars, textVars, rmtreeCalls>>

\* lines 423-443: the downloader extracts <audio_tmp_fpath>.mp3, or raises
AudioDownload ==
    /\ pc = "a_download"
    /\ \/ /\ fs' = WriteFile(fs, TMPA, key, MP3, RawData)
          /\ hist' = Log({<<AUDIO, "download">>})
          /\ pc' = "a_tag"
          /\ UNCHANGED <<idx, faults>>
       \/ /\ Fault
          /\ NextRecord
          /\ hist' = Log({<<AUDIO, "download">>, <<AUDIO, "raised">>})
          /\ UNCHANGED fs
    /\ cacheFilled' = TRUE
    /\ UNCHANGED <<run, csvRows, inputList, rec, videotmpfpath, downloaded_fname,
                   exitCode, envVars, prevVars, textVars, rmtreeCalls>>

\* line 457: the cover file can be opened
CoverOpens == rec.cover \in CoverFiles

\* a plausible slip: the cover is opened outside a try block, so a cover that
\* cannot be opened leaves through the except clause of the record
TagWriteCoverFatal(loads, saves) ==
    IF loads /\ CoverOpens
    THEN LET tmp == FileAt(fs, TMPA, key, MP3)
             disk1 == IF saves
                      THEN WriteFile(fs, TMPA, key, MP3,
                                     [tmp.data EXCEPT !.tags = 1,
                                                      !.cover = TRUE])
                      ELSE fs
             disk2 == RemoveFile(disk1, OUT, key, MP3)
         IN  /\ fs' = disk2
             /\ hist' = Log({<<AUDIO, "tag">>}
                            \cup (IF saves THEN {}
                                  ELSE {<<AUDIO, "save_failed">>}))
             /\ pc' = AudioTarget(disk2)
             /\ idx' = IF AudioTarget(disk2) = "record" THEN idx + 1 ELSE idx
    ELSE /\ NextRecord
         /\ hist' = Log({<<AUDIO, "tag">>, <<AUDIO, "raised">>})
         /\ UNCHANGED fs

\* a plausible slip: audio.save() is called outside a try block, so a save
\* that fails leaves through the except clause of the record
TagWriteSaveFatal(loads, saves) ==
    IF loads /\ saves
    THEN LET tmp == FileAt(fs, TMPA, key, MP3)
             disk1 == WriteFile(fs, TMPA, key, MP3,
                                [tmp.data EXCEPT !.tags = 1,
                                                 !.cover = CoverOpens])
             disk2 == RemoveFile(disk1, OUT, key, MP3)
         IN  /\ fs' = disk2
             /\ hist' = Log({<<AUDIO, "tag">>}
                            \cup (IF CoverOpens THEN {}
                                  ELSE {<<AUDIO, "cover_missing">>}))
             /\ pc' = AudioTarget(disk2)
             /\ idx' = IF AudioTarget(disk2) = "record" THEN idx + 1 ELSE idx
    ELSE /\ NextRecord
         /\ hist' = Log({<<AUDIO, "tag">>, <<AUDIO, "raised">>}
                        \cup (IF loads THEN {<<AUDIO, "save_failed">>} ELSE {}))
         /\ UNCHANGED fs

\* lines 444-486.  loads: ID3(audiotmpfpath) returns (it raises on a file it
\* cannot read, which leaves the try block of the record); saves: audio.save()
\* returns (if not, the error is logged).  A cover that cannot be opened is
\* logged and no APIC frame is set.  Then the final file is removed and the
\* test of line 484 is made.
TagWriteStep(loads, saves) ==
    IF loads
    THEN LET tmp == FileAt(fs, TMPA, key, MP3)
             disk1 == IF saves
                      THEN WriteFile(fs, TMPA, key, MP3,
                                     [tmp.data EXCEPT !.tags = 1,
                                                      !.cover = CoverOpens])
                      ELSE fs
             disk2 == RemoveFile(disk1, OUT, key, MP3)
         IN  /\ fs' = disk2
             /\ hist' = Log({<<AUDIO, "tag">>}
                            \cup (IF CoverOpens THEN {}
                                  ELSE {<<AUDIO, "cover_missing">>})
                            \cup (IF saves THEN {}
                                  ELSE {<<AUDIO, "save_failed">>}))
             /\ pc' = AudioTarget(disk2)
             /\ idx' = IF AudioTarget(disk2) = "record" THEN idx + 1 ELSE idx
    ELSE /\ NextRecord
         /\ hist' = Log({<<AUDIO, "tag">>, <<AUDIO, "raised">>})
         /\ UNCHANGED fs

TagWrite ==
    /\ pc = "a_tag"
    /\ \E outcome \in {<<TRUE, TRUE>>, <<TRUE, FALSE>>, <<FALSE, TRUE>>} :
          /\ IF outcome = <<TRUE, TRUE>> THEN UNCHANGED faults ELSE Fault
          /\ TagWriteStep(outcome[1], outcome[2])
    /\ UNCHANGED <<run, csvRows, inputList, rec, videotmpfpath, downloaded_fname,
                   exitCode, envVars, prevVars, textVars, cacheVars>>

\* lines 487-497: the normalizer writes the final mp3 from the temp mp3, or
\* raises; either way the record is over
AudioNormalize ==
    /\ pc = "a_normalize"
    /\ NextRecord
    /\ \/ /\ fs' = WriteFile(fs, OUT, key, MP3,
                             [FileAt(fs, TMPA, key, MP3).data
                                 EXCEPT !.norm = TRUE])
          /\ hist' = Log({<<AUDIO, "normalize">>, <<AUDIO, "produced">>})
          /\ UNCHANGED faults
       \/ /\ Fault
          /\ hist' = Log({<<AUDIO, "normalize">>, <<AUDIO, "raised">>})
          /\ UNCHANGED fs
    /\ UNCHANGED <<run, csvRows, inputList, rec, videotmpfpath, downloaded_fname,
                   exitCode, envVars, prevVars, textVars, cacheVars>>

(***************************************************************************)
(* Between two invocations.                                                *)
(***************************************************************************)
\* the program is started again with the same options, input file and
\* folders; the disk is as the previous invocation left it
Rerun ==
    /\ pc = "exited"
    /\ run < MaxRuns
    /\ pc' = "start"
    /\ run' = run + 1
    /\ idx' = 0
    /\ csvRows' = <<>>
    /\ inputList' = <<>>
    /\ rec' = NoLocals
    /\ videotmpfpath' = NoFile
    /\ downloaded_fname' = NoFile
    /\ exitCode' = NoExit
    /\ hist' = {}
    /\ prevProduced' = {<<e[1], e[2]>> : e \in {h \in hist : h[3] = "produced"}}
    /\ prevFinal' = {f \in fs : f.tree = OUT}
    /\ rmtreeCalls' = 0
    /\ UNCHANGED <<fs, faults, envVars, textVars, cacheFilled>>

\* the tags of a temp mp3 whose final mp3 exists are saved again from outside
\* the pipeline (revision 2), after an invocation has ended
ForceTagResave ==
    /\ pc = "exited"
    /\ run < MaxRuns
    /\ \E f \in fs :
          /\ f.tree = TMPA
          /\ f.data.tags < 2
          /\ isfile(fs, OUT, f.key, MP3)
          /\ fs' = WriteFile(fs, TMPA, f.key, MP3, [f.data EXCEPT !.tags = 2])
    /\ UNCHANGED <<pc, run, idx, csvRows, inputList, rec, videotmpfpath,
                   downloaded_fname, hist, exitCode, faults, envVars, prevVars,
                   textVars, cacheVars>>

Next ==
    \/ Construct
    \/ LoopEnd
    \/ RecordBegin
    \/ VideoBegin
    \/ VideoDownload
    \/ VideoNormalize
    \/ AudioBegin
    \/ AudioDownload
    \/ TagWrite
    \/ AudioNormalize
    \/ Rerun
    \/ ForceTagResave

Spec == Init /\ [][Next]_vars

(***************************************************************************)
(* The pipeline with the option -r left open: the same steps, run on input *)
(* files made of the two lines that call the downloader for every branch.  *)
(***************************************************************************)
CachePool == {LineAV, LineV}

InitCache ==
    /\ pc = "start"
    /\ run = 1
    /\ idx = 0
    /\ startup \in StartupConditions
    /\ convert_to_mkv = FALSE
    /\ rm_cache_dir \in BOOLEAN
    /\ cacheFilled \in BOOLEAN
    /\ rmtreeCalls = 0
    /\ inputFile \in SeqsUpTo(CachePool, MaxRecords)
    /\ csvRows = <<>>
    /\ inputList = <<>>
    /\ fs = {}
    /\ rec = NoLocals
    /\ videotmpfpath = NoFile
    /\ downloaded_fname = NoFile
    /\ hist = {}
    /\ exitCode = NoExit
    /\ prevProduced = {}
    /\ prevFinal = {}
    /\ faults = 0
    /\ text = <<>>
    /\ sanitized = <<>>

SpecCache == InitCache /\ [][Next]_vars

(***************************************************************************)
(* The pipeline on records that differ in their type flag and host: the    *)
(* same steps, run on input files of lines with an upper-case flag, each   *)
(* of the three flags, a flag that is none of them, an empty flag, and a   *)
(* link of another host with a flag that asks for audio.                   *)
(***************************************************************************)
FlagLine(flag, link, title) ==
    JoinFields(<<flag, link, <<"A">>, <<"B">>, title, <<"x">>, <<"g">>,
                 <<"2">>, <<"c">> >>)

\* AV,youtube/1,A,B,a,x,g,2,c
FlagUpperAV == FlagLine(<<"A", "V">>, LinkYT1, <<"a">>)
\* V,youtube/2,A,B,d,x,g,2,c
FlagUpperV == FlagLine(<<"V">>, LinkYT2, <<"d">>)
\* a,youtube/2,A,B,e,x,g,2,c
FlagLowerA == FlagLine(<<"a">>, LinkYT2, <<"e">>)
\* av,vimeo/4,A,B,c,x,g,2,c
FlagAVOtherHost == FlagLine(<<"a", "v">>, LinkOther, <<"c">>)
\* x,youtube/1,A,B,h,x,g,2,c
FlagUnknown == FlagLine(<<"x">>, LinkYT1, <<"h">>)
\* ,youtube/1,A,B,h,x,g,2,c
FlagEmpty == FlagLine(<<>>, LinkYT1, <<"h">>)

FlagPool == {FlagUpperAV, FlagUpperV, FlagLowerA, FlagAVOtherHost,
             FlagUnknown, FlagEmpty}

InitFlag ==
    /\ pc = "start"
    /\ run = 1
    /\ idx = 0
    /\ startup = "ok"
    /\ convert_to_mkv = FALSE
    /\ rm_cache_dir = FALSE
    /\ cacheFilled = FALSE
    /\ rmtreeCalls = 0
    /\ inputFile \in SeqsUpTo(FlagPool, MaxFlagRecords)
    /\ csvRows = <<>>
    /\ inputList = <<>>
    /\ fs = {}
    /\ rec = NoLocals
    /\ videotmpfpath = NoFile
    /\ downloaded_fname = NoFile
    /\ hist = {}
    /\ exitCode = NoExit
    /\ prevProduced = {}
    /\ prevFinal = {}
    /\ faults = 0
    /\ text = <<>>
    /\ sanitized = <<>>

SpecFlag == InitFlag /\ [][Next]_vars

(***************************************************************************)
(* The segment sanitizer on its own: a text is sanitized as lines 290-296  *)
(* do, and the segment obtained is sanitized once more.                    *)
(***************************************************************************)
\* characters of the texts: alphanumerics, an underscore, separators and a
\* letter outside ASCII
TextChars == {"a", "Z", "0", "_", " ", "-", "é"}

InitSanitize ==
    /\ pc = "text"
    /\ text \in SeqsUpTo(TextChars, MaxTextLen)
    /\ sanitized = <<>>
    /\ run = 1
    /\ idx = 0
    /\ startup = "ok"
    /\ convert_to_mkv = FALSE
    /\ rm_cache_dir = FALSE
    /\ cacheFilled = FALSE
    /\ rmtreeCalls = 0
    /\ inputFile = <<>>
    /\ csvRows = <<>>
    /\ inputList = <<>>
    /\ fs = {}
    /\ rec = NoLocals
    /\ videotmpfpath = NoFile
    /\ downloaded_fname = NoFile
    /\ hist = {}
    /\ exitCode = NoExit
    /\ prevProduced = {}
    /\ prevFinal = {}
    /\ faults = 0

pipelineVars == <<run, idx, csvRows, inputList, fs, rec, videotmpfpath,
                  downloaded_fname, hist, exitCode, faults, envVars, prevVars,
                  cacheVars>>

SanitizeSegment ==
    /\ pc = "text"
    /\ sanitized' = Sanitize(text)
    /\ pc' = "segment"
    /\ UNCHANGED <<text, pipelineVars>>

SanitizeAgain ==
    /\ pc = "segment"
    /\ text' = sanitized
    /\ sanitized' = Sanitize(sanitized)
    /\ pc' = "segment_again"
    /\ UNCHANGED pipelineVars

NextSanitize == SanitizeSegment \/ SanitizeAgain

SpecSanitize == InitSanitize /\ [][NextSanitize]_vars

(***************************************************************************)
(* The input parser on its own: __init__ parses a file of up to two short  *)
(* lines over the characters that matter to it.                            *)
(***************************************************************************)
LineChars == {"a", ",", "#", " "}

InitParse ==
    /\ pc = "start"
    /\ startup = "ok"
    /\ \E l \in SeqsUpTo(LineChars, MaxLineLen),
          m \in SeqsUpTo(LineChars, MaxSecondLineLen) :
            inputFile \in {<<l>>, <<l, m>>}
    /\ csvRows = <<>>
    /\ inputList = <<>>
    /\ run = 1
    /\ idx = 0
    /\ convert_to_mkv = FALSE
    /\ rm_cache_dir = FALSE
    /\ cacheFilled = FALSE
    /\ rmtreeCalls = 0
    /\ fs = {}
    /\ rec = NoLocals
    /\ videotmpfpath = NoFile
    /\ downloaded_fname = NoFile
    /\ hist = {}
    /\ exitCode = NoExit
    /\ prevProduced = {}
    /\ prevFinal = {}
    /\ faults = 0
    /\ text = <<>>
    /\ sanitized = <<>>

NextParse == Construct

SpecParse == InitParse /\ [][NextParse]_vars

(***************************************************************************)
(* Vocabulary of the properties.                                           *)
(***************************************************************************)
Kinds == {VIDEO, AUDIO}
Events(i, k) == {e[3] : e \in {h \in hist : h[1] = i /\ h[2] = k}}
Raised(i) == \E k \in Kinds : "raised" \in Events(i, k)
DownloadRaised(i, k) == {"download", "raised"} \subseteq Events(i, k)

\* a final video / audio artifact of the path triple k is on the disk
FinalVideoOn(disk, k) ==
    \E f \in disk : f.tree = OUT /\ f.key = k /\ f.ext # MP3
FinalAudioOn(disk, k) == isfile(disk, OUT, k, MP3)

\* the branches record i asks for have their final artifacts on the disk
Complete(i) ==
    LET l == Locals(inputList[i])
    IN  /\ l.getvideo => FinalVideoOn(fs, l.key)
        /\ (l.getaudio /\ l.isyoutube) => FinalAudioOn(fs, l.key)

(***************************************************************************)
(* C1.  Idempotent re-run: in a second run on the same input and output    *)
(* folder there is no downloader call and no normalize / copy call for any *)
(* record and kind whose final artifact the first run produced, and every  *)
(* final artifact is left as it was.                                       *)
(***************************************************************************)
C1_IdempotentRerun ==
    run > 1 =>
        /\ \A e \in hist :
              <<e[1], e[2]>> \in prevProduced
                 => e[3] \notin {"download", "normalize", "copy"}
        /\ \A f \in prevFinal : f \in fs

(***************************************************************************)
(* C2.  Fault isolation: a step in which a collaborator raises ends at the *)
(* top of the loop with the next record, the process still running; and    *)
(* when the run has ended, every record that met no error has its final    *)
(* artifacts, while a branch whose download raised has produced nothing    *)
(* and, if it was the video branch, the record's audio branch never ran.   *)
(***************************************************************************)
C2_Caught ==
    (\E e \in hist' \ hist : e[3] = "raised")
        => /\ pc' = "record"
           /\ idx' = idx + 1
           /\ exitCode' = NoExit
           /\ \A f \in fs : f \in fs'

C2_Outcome ==
    (pc = "exited" /\ exitCode = 0) =>
        \A i \in 1..Len(inputList) :
            /\ ~Raised(i) => Complete(i)
            /\ \A k \in Kinds :
                  DownloadRaised(i, k) => "produced" \notin Events(i, k)
            /\ DownloadRaised(i, VIDEO) => Events(i, AUDIO) = {}

C2_FaultIsolation == []C2_Outcome /\ [][C2_Caught]_vars

\* three records, the second link unreachable, the first and the third done
C2_Witness ==
    /\ pc = "exited"
    /\ exitCode = 0
    /\ Len(inputList) = 3
    /\ \E k \in Kinds : DownloadRaised(2, k)
    /\ \E k \in Kinds : "produced" \in Events(1, k)
    /\ \E k \in Kinds : "produced" \in Events(3, k)
    /\ Complete(1) /\ Complete(3)
    /\ Locals(inputList[1]).key # Locals(inputList[3]).key

(***************************************************************************)
(* C3.  Final-exists short circuit: a branch that starts with its final    *)
(* artifact on the disk goes straight to its end, with no collaborator     *)
(* call and the disk untouched.                                            *)
(***************************************************************************)
C3_ShortCircuit ==
    /\ (pc = "video" /\ rec.getvideo /\ FinalVideoOn(fs, key))
          => (pc' = "audio" /\ hist' = hist /\ fs' = fs)
    /\ (pc = "audio" /\ rec.getaudio /\ rec.isyoutube /\ FinalAudioOn(fs, key))
          => (pc' = "record" /\ idx' = idx + 1 /\ hist' = hist /\ fs' = fs)

C3_FinalExistsShortCircuit == [][C3_ShortCircuit]_vars

(***************************************************************************)
(* C4.  Tag invalidation: when the tags of a temp mp3 whose final mp3      *)
(* exists were saved again, the next run removes the final mp3 and         *)
(* normalizes again, so that a run that ends without an error leaves a     *)
(* final mp3 made from the re-tagged temp mp3.                             *)
(***************************************************************************)
C4_TagInvalidation ==
    (pc = "exited" /\ exitCode = 0 /\ run > 1 /\ faults = 0) =>
        \A t \in fs :
            (t.tree = TMPA /\ t.data.tags = 2)
                => \E f \in fs : /\ f.tree = OUT
                                 /\ f.key = t.key
                                 /\ f.ext = MP3
                                 /\ f.data.tags = 2

(***************************************************************************)
(* C5.  Final artifacts are never overwritten: a final file that is on the *)
(* disk is still there, with the same content, after every step; and a     *)
(* step that produces a final artifact creates a file at a path where      *)
(* there was none.                                                         *)
(***************************************************************************)
C5_Step ==
    /\ \A f \in fs : f.tree = OUT => f \in fs'
    /\ (\E e \in hist' \ hist : e[3] = "produced")
          => \E f \in fs' : f.tree = OUT /\ ~isfile(fs, OUT, f.key, f.ext)

C5_FinalNeverOverwritten == [][C5_Step]_vars

\* a record whose paths another record shares: its video was downloaded but
\* the final file already there was left alone (test of line 391)
C5_Witness ==
    /\ pc = "audio"
    /\ "download" \in Events(idx, VIDEO)
    /\ "produced" \notin Events(idx, VIDEO)
    /\ "raised" \notin Events(idx, VIDEO)
    /\ FinalVideoOn(fs, key)

(***************************************************************************)
(* C6.  Sanitization of a path segment: the segment holds only ASCII       *)
(* alphanumerics and underscores, never two underscores in a row, and      *)
(* sanitizing the segment again gives the segment back.                    *)
(***************************************************************************)
C6_SanitizeIdempotent ==
    /\ pc \in {"segment", "segment_again"} =>
          /\ \A i \in 1..Len(sanitized) : sanitized[i] \in Alnum \cup {"_"}
          /\ \A i \in 1..(Len(sanitized) - 1) :
                ~(sanitized[i] = "_" /\ sanitized[i + 1] = "_")
    /\ pc = "segment_again" => sanitized = text

\* a segment with an underscore that stood for a run of separators, sanitized
\* a second time
C6_Witness ==
    /\ pc = "segment_again"
    /\ sanitized = <<"a", "_", "Z">>
    /\ text = sanitized

(***************************************************************************)
(* C7.  Comment stripping: the records parsed from a file are those parsed *)
(* from the same file with everything from the first '#' of each line      *)
(* removed; a line with nothing but white space before its '#' or its end  *)
(* gives no record; the records come in the order of their lines.          *)
(***************************************************************************)
WithoutComment(line) == BeforeFirst(line, "#")
Blank(line) == \A j \in 1..Len(line) : line[j] \in Whitespace
KeptLines == {i \in 1..Len(inputFile) : ~Blank(WithoutComment(inputFile[i]))}
\* the line the n-th record comes from, if records follow the line order
NthKept(n) ==
    CHOOSE i \in KeptLines : Cardinality({j \in KeptLines : j < i}) = n - 1

C7_CommentStripping ==
    pc = "record" =>
        /\ inputList =
              parse_input_list([i \in 1..Len(inputFile) |->
                                   WithoutComment(inputFile[i])])
        /\ Len(inputList) = Cardinality(KeptLines)
        /\ \A n \in 1..Len(inputList) :
              <<inputList[n]>> =
                  parse_input_list(<<WithoutComment(inputFile[NthKept(n)])>>)

\* two lines, the first with a comment after two fields, both giving a record
C7_Witness ==
    /\ pc = "record"
    /\ Len(inputFile) = 2
    /\ inputFile[1] = <<"a", ",", " ", "#">>
    /\ Len(inputList) = 2
    /\ inputList[1][DLTYPE] = <<"a">>
    /\ inputList[1][DLINK] = <<>>

InRecord == pc \in {"video", "v_download", "v_normalize", "audio",
                    "a_download", "a_tag", "a_normalize"}

C9_Step ==
    (pc = "a_tag" /\ pc' # "a_tag" /\ ~CoverOpens /\ faults' = faults)
        => /\ isfile(fs', TMPA, key, MP3)
           /\ FileAt(fs', TMPA, key, MP3).data.tags = 1
           /\ ~FileAt(fs', TMPA, key, MP3).data.cover
           /\ pc' = "a_normalize"
           /\ idx' = idx

C9_MissingCover == [][C9_Step]_vars

\* tags written without the cover, the record about to be normalized
C9_Witness ==
    /\ pc = "a_normalize"
    /\ "cover_missing" \in Events(idx, AUDIO)
    /\ "save_failed" \notin Events(idx, AUDIO)
    /\ FileAt(fs, TMPA, key, MP3).data.tags = 1
    /\ ~FileAt(fs, TMPA, key, MP3).data.cover

(***************************************************************************)
(* C10.  Startup-fatal errors: when the output folder does not exist, the  *)
(* input file is missing or unreadable, or a temp folder cannot be made,   *)
(* the process never gets past its start: no record is parsed or entered,  *)
(* no collaborator is called, the disk is untouched, and once the process  *)
(* has exited its exit code is not zero.                                   *)
(***************************************************************************)
C10_StartupFatal ==
    startup # "ok" =>
        /\ pc \in {"start", "exited"}
        /\ inputList = <<>>
        /\ hist = {}
        /\ fs = {}
        /\ pc = "exited" => exitCode # 0 /\ exitCode # NoExit

\* the input file is missing: the process has exited with code 1, twice
C10_Witness ==
    /\ startup = "no_input_file"
    /\ inputFile # <<>>
    /\ pc = "exited"
    /\ exitCode = 1
    /\ run = 2

(***************************************************************************)
(* C11.  No per-record condition aborts the run: once the start-up has     *)
(* succeeded, the process only ever exits with the record loop past the    *)
(* last record of the input list, and with exit code 0.                    *)
(***************************************************************************)
C11_NoRecordAbortsRun ==
    (startup = "ok" /\ pc = "exited") =>
        /\ exitCode = 0
        /\ idx = Len(inputList) + 1

(***************************************************************************)
(* C12.  Each record gets its own path tree: two records of one input that *)
(* differ in some field derive different path triples, hence different     *)
(* temp and final paths; so in a first run without a failure every record  *)
(* that repeats no earlier record produces the final artifact of each      *)
(* branch it asks for itself, none being blocked by another record's file. *)
(***************************************************************************)
Readable(i) == FieldsReadable(inputList[i])

C12_OwnPathTree ==
    /\ \A i, j \in 1..Len(inputList) :
          (i < j /\ Readable(i) /\ Readable(j) /\ inputList[i] # inputList[j])
              => PathKey(inputList[i]) # PathKey(inputList[j])
    /\ (pc = "exited" /\ exitCode = 0 /\ run = 1 /\ faults = 0) =>
          \A i \in 1..Len(inputList) :
              (\A j \in 1..(i - 1) : inputList[j] # inputList[i]) =>
                  LET l == Locals(inputList[i])
                  IN  /\ l.getvideo => "produced" \in Events(i, VIDEO)
                      /\ (l.getaudio /\ l.isyoutube)
                            => "produced" \in Events(i, AUDIO)

(***************************************************************************)
(* C13.  Temp-exists short circuit: a branch that starts with its final    *)
(* artifact absent and its temp artifact on the disk calls no downloader   *)
(* and goes to its normalization (or copy) step with the disk untouched;   *)
(* and a normalization or copy step that produces a final artifact makes   *)
(* it from a temp artifact of the same record and kind.                    *)
(***************************************************************************)
TempVideoOn(disk, k) == \E f \in disk : f.tree = TMPV /\ f.key = k
TempAudioOn(disk, k) == isfile(disk, TMPA, k, MP3)

\* the file f is made from a temp file of the tree (content and tags kept)
MadeFrom(f, disk, tree) ==
    \E t \in disk : /\ t.tree = tree
                    /\ t.key = f.key
                    /\ f.data.src = t.data.src
                    /\ f.data.tags = t.data.tags
                    /\ f.data.cover = t.data.cover

C13_Step ==
    /\ (/\ pc = "video"
        /\ rec.getvideo
        /\ ~FinalVideoOn(fs, key)
        /\ TempVideoOn(fs, key))
          => (pc' = "v_normalize" /\ hist' = hist /\ fs' = fs)
    /\ (/\ pc = "audio"
        /\ rec.getaudio
        /\ rec.isyoutube
        /\ ~FinalAudioOn(fs, key)
        /\ TempAudioOn(fs, key))
          => (pc' = "a_normalize" /\ idx' = idx /\ hist' = hist /\ fs' = fs)
    /\ (pc = "v_normalize" /\ <<idx, VIDEO, "produced">> \in hist' \ hist)
          => \E f \in fs' \ fs :
                f.tree = OUT /\ f.key = key /\ MadeFrom(f, fs, TMPV)
    /\ (pc = "a_normalize" /\ <<idx, AUDIO, "produced">> \in hist' \ hist)
          => \E f \in fs' \ fs :
                f.tree = OUT /\ f.key = key /\ MadeFrom(f, fs, TMPA)

C13_TempExistsShortCircuit == [][C13_Step]_vars

(***************************************************************************)
(* C14.  Step ordering within a record: every collaborator call of a step  *)
(* belongs to the record the loop is at and to one branch; the video       *)
(* branch comes before the audio branch; in a branch the download is the   *)
(* first call; a successful audio download is followed by the tag writing  *)
(* and that by the normalization; a successful video download is followed  *)
(* by the normalize / copy step (or by the audio branch, when the final    *)
(* file is there); and a normalization or copy starts only after the       *)
(* download of its branch has returned, or was skipped for a temp file     *)
(* that is on the disk.                                                    *)
(***************************************************************************)
NewEvents == hist' \ hist
NewOf(k) == {e[3] : e \in {h \in NewEvents : h[2] = k}}
Done(k) == Events(idx, k)

C14_Step ==
    /\ \A e \in NewEvents : e[1] = idx
    /\ \A e1, e2 \in NewEvents : e1[2] = e2[2]
    /\ NewOf(VIDEO) # {} => Done(AUDIO) = {}
    /\ \A k \in Kinds : "download" \in NewOf(k) => Done(k) = {}
    /\ (pc = "v_download" /\ "download" \in NewOf(VIDEO)
                          /\ "raised" \notin NewOf(VIDEO))
          => pc' \in {"v_normalize", "audio"}
    /\ (pc = "a_download" /\ "download" \in NewOf(AUDIO)
                          /\ "raised" \notin NewOf(AUDIO))
          => pc' = "a_tag"
    /\ "tag" \in NewOf(AUDIO)
          => /\ pc = "a_tag"
             /\ Done(AUDIO) = {"download"}
             /\ "raised" \notin NewOf(AUDIO) => pc' = "a_normalize"
    /\ "normalize" \in NewOf(AUDIO)
          => /\ pc = "a_normalize"
             /\ "raised" \notin Done(AUDIO)
             /\ "normalize" \notin Done(AUDIO)
             /\ IF "download" \in Done(AUDIO)
                THEN "tag" \in Done(AUDIO)
                ELSE Done(AUDIO) = {} /\ TempAudioOn(fs, key)
    /\ NewOf(VIDEO) \cap {"normalize", "copy"} # {}
          => /\ pc = "v_normalize"
             /\ Done(VIDEO) \in {{}, {"download"}}
             /\ Done(VIDEO) = {} => TempVideoOn(fs, key)
             /\ isfile(fs, TMPV, key, videotmpfpath)

C14_StepOrdering == [][C14_Step]_vars

\* a record done in full: video download, normalize; audio download, tag,
\* normalize
C14_Witness ==
    \E i \in 1..Len(inputList) :
        /\ i < idx
        /\ Events(i, VIDEO) = {"download", "normalize", "produced"}
        /\ Events(i, AUDIO) = {"download", "tag", "normalize", "produced"}

(***************************************************************************)
(* C15.  A folder of a record that cannot be made and is not there: no     *)
(* download, tag writing, normalization or copy is attempted for that      *)
(* record, and the run does not end with a failure at it.                  *)
(***************************************************************************)
C15_MkdirFailureAbandons ==
    \A i \in 1..Len(inputList) :
        "mkdir_failed" \in Events(i, DIRS) =>
            /\ Events(i, VIDEO) \cup Events(i, AUDIO) = {}
            /\ ~(pc = "exited" /\ exitCode # 0 /\ idx = i)

(***************************************************************************)
(* C16.  A tag save that fails does not abort the record: the step in      *)
(* which audio.save() fails raises nothing, leaves the temp mp3 as it was  *)
(* and goes on to the normalization of the same record; the normalizer is  *)
(* then called, and when it returns the final mp3 is made from the temp    *)
(* mp3, which carries no tags.                                             *)
(***************************************************************************)
C16_Step ==
    /\ "save_failed" \in NewOf(AUDIO)
          => /\ pc = "a_tag"
             /\ "raised" \notin NewOf(AUDIO)
             /\ pc' = "a_normalize"
             /\ idx' = idx
             /\ exitCode' = NoExit
             /\ FileAt(fs', TMPA, key, MP3) = FileAt(fs, TMPA, key, MP3)
    /\ (pc = "a_normalize" /\ "save_failed" \in Done(AUDIO) /\ pc' # pc)
          => /\ "normalize" \in NewOf(AUDIO)
             /\ "produced" \in NewOf(AUDIO)
                   => \E f \in fs' \ fs :
                         /\ f.tree = OUT /\ f.key = key /\ f.ext = MP3
                         /\ MadeFrom(f, fs, TMPA)
                         /\ f.data.tags = 0
                         /\ f.data.norm

C16_TagSaveFailure == [][C16_Step]_vars

\* the save failed, the normalizer ran and the final mp3 has no tags
C16_Witness ==
    \E i \in 1..Len(inputList) :
        /\ {"download", "tag", "save_failed", "normalize", "produced"}
              \subseteq Events(i, AUDIO)
        /\ \E f \in fs : /\ f.tree = OUT
                         /\ f.ext = MP3
                         /\ f.key = PathKey(inputList[i])
                         /\ f.data.tags = 0

(***************************************************************************)
(* C17.  Copy or normalize by host: for a record whose link does not       *)
(* contain 'youtube' the normalizer is never called and a final video it   *)
(* produced was made by copy; for a record whose link contains 'youtube'   *)
(* copy is never called and a final video it produced was made by the      *)
(* normalizer; so a final video on the disk went through the normalizer    *)
(* exactly when the link it was downloaded from contains 'youtube'.        *)
(***************************************************************************)
FromPrimaryHost(i) == Contains(Field(inputList[i], DLINK), YOUTUBE)

C17_CopyOrNormalizeByHost ==
    /\ \A e \in hist :
          /\ e[3] = "normalize" => FromPrimaryHost(e[1])
          /\ e[3] = "copy" => ~FromPrimaryHost(e[1])
    /\ \A i \in 1..Len(inputList) :
          "produced" \in Events(i, VIDEO) =>
              IF FromPrimaryHost(i)
              THEN "normalize" \in Events(i, VIDEO)
              ELSE "copy" \in Events(i, VIDEO)
    /\ \A f \in fs :
          (f.tree = OUT /\ f.ext # MP3)
              => (f.data.norm <=> Contains(f.data.src, YOUTUBE))

\* one final video made by copy and one made by the normalizer, in one run
C17_Witness ==
    /\ \E i \in 1..Len(inputList) :
          /\ ~FromPrimaryHost(i)
          /\ {"copy", "produced"} \subseteq Events(i, VIDEO)
    /\ \E i \in 1..Len(inputList) :
          /\ FromPrimaryHost(i)
          /\ {"normalize", "produced"} \subseteq Events(i, VIDEO)
    /\ \E f \in fs : f.tree = OUT /\ f.ext # MP3 /\ f.data.norm
    /\ \E f \in fs : f.tree = OUT /\ f.ext # MP3 /\ ~f.data.norm

(***************************************************************************)
(* C18.  Temp artifacts are never deleted or rolled back: a temp file that *)
(* is on the disk is still there after every step, whether the step        *)
(* succeeded or raised; so in a later run a branch that finds no final     *)
(* artifact and whose temp artifact is on the disk calls no downloader.    *)
(***************************************************************************)
C18_TempKept ==
    \A t \in fs : t.tree \in {TMPV, TMPA} => isfile(fs', t.tree, t.key, t.ext)

C18_TempFoundLater ==
    /\ (/\ run > 1 /\ pc = "video" /\ rec.getvideo /\ TempVideoOn(fs, key))
          => pc' # "v_download"
    /\ (/\ run > 1 /\ pc = "audio" /\ rec.getaudio /\ rec.isyoutube
        /\ TempAudioOn(fs, key))
          => pc' # "a_download"

C18_TempNeverDeleted == [][C18_TempKept /\ C18_TempFoundLater]_vars

(***************************************************************************)
(* C19.  The cache folder of the downloader is removed at most once in a   *)
(* run, only when the option -r was given, and only in the step that       *)
(* starts the run, before the loop has reached its first record; no step   *)
(* between or during records empties the cache.                            *)
(***************************************************************************)
C19_Count ==
    /\ rmtreeCalls <= 1
    /\ rmtreeCalls = 1 => rm_cache_dir
    /\ rmtreeCalls = 1 => (startup = "ok" /\ pc # "start")

C19_Step ==
    /\ rmtreeCalls' > rmtreeCalls
          => /\ pc = "start"
             /\ idx = 0
             /\ hist = {}
             /\ pc' = "record" /\ idx' = 1
    /\ (cacheFilled /\ ~cacheFilled')
          => (pc = "start" /\ rm_cache_dir /\ rmtreeCalls' = rmtreeCalls + 1)
    /\ (pc # "start" /\ pc # "exited") => rmtreeCalls' = rmtreeCalls

C19_CacheClearedOnce == []C19_Count /\ [][C19_Step]_vars

\* a second run with -r on two records or more: the cache the first run had
\* filled was removed once, and the run has ended
C19_Witness ==
    /\ run = 2
    /\ rm_cache_dir
    /\ rmtreeCalls = 1
    /\ prevProduced # {}
    /\ Len(inputList) >= 2
    /\ pc = "exited"
    /\ exitCode = 0

(***************************************************************************)
(* C20.  Tags are written only right after an audio download of the same   *)
(* record in the same run: a tag writing step has the download of its      *)
(* record, and nothing else of the audio branch, before it; an audio       *)
(* branch that starts with its temp mp3 on the disk goes neither to the    *)
(* downloader nor to the tag writer; and when the normalizer then returns, *)
(* the final mp3 is the temp mp3 as it was found, normalized.              *)
(***************************************************************************)
C20_Step ==
    /\ "tag" \in NewOf(AUDIO)
          => /\ pc = "a_tag"
             /\ Done(AUDIO) = {"download"}
    /\ (pc = "audio" /\ rec.getaudio /\ rec.isyoutube /\ TempAudioOn(fs, key))
          => /\ pc' \notin {"a_download", "a_tag"}
             /\ hist' = hist
             /\ fs' = fs
    /\ (/\ pc = "a_normalize"
        /\ "download" \notin Done(AUDIO)
        /\ "produced" \in NewOf(AUDIO))
          => /\ "tag" \notin Done(AUDIO)
             /\ FileAt(fs', TMPA, key, MP3) = FileAt(fs, TMPA, key, MP3)
             /\ FileAt(fs', OUT, key, MP3).data
                   = [FileAt(fs, TMPA, key, MP3).data EXCEPT !.norm = TRUE]

C20_TagOnlyAfterDownload == [][C20_Step]_vars

\* a second run made the final mp3 from a temp mp3 the first run had
\* downloaded and failed to tag: no download, no tag writing, no tags
C20_Witness ==
    /\ run = 2
    /\ \E i \in 1..Len(inputList) :
          /\ Events(i, AUDIO) = {"normalize", "produced"}
          /\ \E f \in fs : /\ f.tree = OUT
                           /\ f.ext = MP3
                           /\ f.key = PathKey(inputList[i])
                           /\ f.data.tags = 0
                           /\ f.data.norm

(***************************************************************************)
(* C21.  A failure in the video branch abandons the record for the run: a  *)
(* step in which the video download, the copy or the normalizer raises     *)
(* leads to the top of the loop with the next record and leaves the disk   *)
(* as it was; no step of the audio branch of that record is ever taken     *)
(* and no audio collaborator is called for it, whatever its type flag.     *)
(***************************************************************************)
AudioPositions == {"audio", "a_download", "a_tag", "a_normalize"}

C21_Step ==
    /\ "raised" \in NewOf(VIDEO)
          => /\ pc \in {"v_download", "v_normalize"}
             /\ pc' = "record"
             /\ idx' = idx + 1
             /\ exitCode' = NoExit
             /\ \A f \in fs' : f.tree \in {OUT, TMPA} => f \in fs
    /\ pc' \in AudioPositions => "raised" \notin Events(idx', VIDEO)

C21_Abandoned ==
    \A i \in 1..Len(inputList) :
        "raised" \in Events(i, VIDEO) => Events(i, AUDIO) = {}

C21_VideoFailureAbandonsRecord == []C21_Abandoned /\ [][C21_Step]_vars

\* a record that asks for audio and video from the primary host: its
\* normalizer raised on the video, nothing of its audio branch ran, and the
\* run has ended
C21_Witness ==
    /\ pc = "exited"
    /\ exitCode = 0
    /\ \E i \in 1..Len(inputList) :
          /\ Lower(Field(inputList[i], DLTYPE)) = <<"a", "v">>
          /\ FromPrimaryHost(i)
          /\ Events(i, VIDEO) = {"download", "normalize", "raised"}
          /\ Events(i, AUDIO) = {}
          /\ ~isfile(fs, TMPA, PathKey(inputList[i]), MP3)

(***************************************************************************)
(* C22.  As claimed: the type flag alone selects the branches, whatever    *)
(* its case.  A record with no file of its own on the disk goes to the     *)
(* video download exactly when its flag is 'v' or 'av', and to the audio   *)
(* download exactly when its flag is 'a' or 'av'; a record with any other  *)
(* flag passes both branches with no collaborator call, the disk untouched *)
(* and the process running.                                                *)
(***************************************************************************)
FlagOf(i) == Lower(Field(inputList[i], DLTYPE))
FlagA == <<"a">>
FlagV == <<"v">>
FlagAV == <<"a", "v">>

NoVideoFileOn(disk, k) ==
    \A f \in disk : ~(f.key = k /\ f.tree \in {OUT, TMPV} /\ f.ext # MP3)
NoAudioFileOn(disk, k) ==
    \A f \in disk : ~(f.key = k /\ f.tree \in {OUT, TMPA} /\ f.ext = MP3)

\* what holds of the video branch and of a flag that is none of the three
FlagVideoAndOther ==
    /\ (pc = "video" /\ NoVideoFileOn(fs, key))
          => (pc' = "v_download" <=> FlagOf(idx) \in {FlagV, FlagAV})
    /\ (pc \in {"video", "audio"} /\ FlagOf(idx) \notin {FlagA, FlagV, FlagAV})
          => /\ pc' = IF pc = "video" THEN "audio" ELSE "record"
             /\ hist' = hist
             /\ fs' = fs
             /\ exitCode' = NoExit
    /\ \A i \in 1..Len(inputList) :
          (Readable(i) /\ FlagOf(i) \notin {FlagA, FlagV, FlagAV})
              => Events(i, VIDEO) \cup Events(i, AUDIO) = {}

C22_FlagAloneStep ==
    /\ FlagVideoAndOther
    /\ (pc = "audio" /\ NoAudioFileOn(fs, key))
          => (pc' = "a_download" <=> FlagOf(idx) \in {FlagA, FlagAV})

C22_TypeFlagAlone == [][C22_FlagAloneStep]_vars

(***************************************************************************)
(* C22, amended.  The type flag selects the branches, whatever its case,   *)
(* and the audio branch also needs a link of the primary host: a record    *)
(* with no file of its own on the disk goes to the video download exactly  *)
(* when its flag is 'v' or 'av', and to the audio download exactly when    *)
(* its flag is 'a' or 'av' and its link contains 'youtube'; a record with  *)
(* any other flag passes both branches with no collaborator call, the disk *)
(* untouched and the process running.                                      *)
(***************************************************************************)
C22_FlagAndHostStep ==
    /\ FlagVideoAndOther
    /\ (pc = "audio" /\ NoAudioFileOn(fs, key))
          => (pc' = "a_download"
                 <=> (FlagOf(idx) \in {FlagA, FlagAV} /\ FromPrimaryHost(idx)))

C22_TypeFlagAndHost == [][C22_FlagAndHostStep]_vars

\* a run that has ended: a record with the flag AV in upper case had both
\* downloads, a record with a flag that is none of the three had no call
C22_Witness ==
    /\ pc = "exited"
    /\ exitCode = 0
    /\ \E i \in 1..Len(inputList) :
          /\ Field(inputList[i], DLTYPE) = <<"A", "V">>
          /\ "download" \in Events(i, VIDEO)
          /\ "download" \in Events(i, AUDIO)
    /\ \E i \in 1..Len(inputList) :
          /\ FlagOf(i) \notin {FlagA, FlagV, FlagAV}
          /\ Events(i, VIDEO) \cup Events(i, AUDIO) = {}

(***************************************************************************)
(* C23.  The audio branch runs only for links of the primary host: for a   *)
(* record whose link does not contain 'youtube' the audio branch is passed *)
(* in one step with no collaborator call and the disk untouched, whatever  *)
(* the type flag; such a record has no audio download, tag writing or      *)
(* audio normalization in the history, and no mp3, temp or final, on the   *)
(* disk comes from a link that does not contain 'youtube'.                 *)
(***************************************************************************)
C23_Step ==
    /\ (pc = "audio" /\ ~FromPrimaryHost(idx))
          => /\ pc' = "record"
             /\ idx' = idx + 1
             /\ hist' = hist
             /\ fs' = fs
    /\ pc' \in {"a_download", "a_tag", "a_normalize"} => FromPrimaryHost(idx')

C23_NoAudio ==
    /\ \A i \in 1..Len(inputList) :
          (Readable(i) /\ ~FromPrimaryHost(i)) => Events(i, AUDIO) = {}
    /\ \A f \in fs : f.ext = MP3 => Contains(f.data.src, YOUTUBE)

C23_AudioOnlyPrimaryHost == []C23_NoAudio /\ [][C23_Step]_vars

\* a record of another host that asks for audio and video: its video was
\* copied, nothing of its audio ran, no mp3 of its paths is on the disk,
\* and the run has ended
C23_Witness ==
    /\ pc = "exited"
    /\ exitCode = 0
    /\ \E i \in 1..Len(inputList) :
          /\ FlagOf(i) = FlagAV
          /\ ~FromPrimaryHost(i)
          /\ {"copy", "produced"} \subseteq Events(i, VIDEO)
          /\ Events(i, AUDIO) = {}
          /\ NoAudioFileOn(fs, PathKey(inputList[i]))

(***************************************************************************)
(* C24.  The final video file the video branch writes is <title>.mkv when  *)
(* the link is of the primary host or the convert-to-mkv option is set,    *)
(* whatever the extension of the temp file found or downloaded; otherwise  *)
(* its extension is the extension of the temp file.  The file written is   *)
(* the only change of the disk in that step, it is in the output tree      *)
(* under the record's paths, and the temp file it is made from is there.   *)
(***************************************************************************)
C24_Ext ==
    IF FromPrimaryHost(idx) \/ convert_to_mkv THEN MKV ELSE videotmpfpath

C24_Step ==
    /\ "produced" \in NewOf(VIDEO)
          => /\ pc = "v_normalize"
             /\ isfile(fs, TMPV, PathKey(inputList[idx]), videotmpfpath)
             /\ \E f \in fs' :
                   /\ f.tree = OUT
                   /\ f.key = PathKey(inputList[idx])
                   /\ f.ext = C24_Ext
                   /\ f \notin fs
                   /\ fs' = fs \cup {f}
    /\ \A f \in fs' \ fs : (f.tree = OUT /\ f.ext # MP3) => "produced" \in NewOf(VIDEO)

C24_FinalVideoExt == [][C24_Step]_vars

\* a temp .mp4 left by an earlier attempt was found, not downloaded, and the
\* final file written from it is the .mkv
C24_Witness ==
    /\ pc = "audio"
    /\ videotmpfpath = "mp4"
    /\ "produced" \in Events(idx, VIDEO)
    /\ "download" \notin Events(idx, VIDEO)
    /\ isfile(fs, OUT, key, MKV)
    /\ ~isfile(fs, OUT, key, "mp4")

====
